---- MODULE Spec2Model ----
(***************************************************************************)
(* Model of the caddy-geoip2 plugin: the shared database state             *)
(* (GeoIP2State: four database handles guarded by one sync.RWMutex, the    *)
(* loader loadDatabase, the reload timer, Start and Stop) and the request  *)
(* handler's performLookup, which chains the country, city and ASN         *)
(* lookups.                                                                *)
(*                                                                         *)
(* A database handle is the pair <<slot, gen>>: the reader opened for      *)
(* that slot by the gen-th loadDatabase call that reached maxminddb.Open.  *)
(* A slot binding is the generation of the handle bound to it, 0 for nil.  *)
(***************************************************************************)
EXTENDS Integers, FiniteSets, Sequences, TLC

\* ------------------------------------------------------------------ bounds
\* Number of concurrent request goroutines (each serves one request).
NumRequests == 1
\* Number of ticks the reload ticker may deliver while requests are served.
MaxTicks == 1
\* Number of times Stop may be called.
MaxStops == 2

\* ------------------------------------------------------------------ constants
Nil == 0
Slots == {"Country", "City", "GlobalCity", "ASN"}
Workers == 1..NumRequests
Loaders == {"main", "timer"}
\* One generation per loadDatabase call: Start's and one per tick (one tick
\* more than MaxTicks where no request is served).
MaxGen == MaxTicks + 2

\* The reload intervals (hours) the model is started with: 0 = no timer.
DefaultReloadHours == 24
Intervals == {0, DefaultReloadHours}

VARIABLES
    conf,     \* configuration: [asnPath: BOOLEAN, interval: Intervals]; where
              \* the configuration is read in the model, also paths (the
              \* slots whose path is not "") and text (the reload_interval
              \* argument)
    slots,    \* Country/City/GlobalCity/ASN DBHandler: [Slots -> 0..MaxGen]
    opened,   \* handles returned by maxminddb.Open so far
    closed,   \* handles on which Close() has been called
    mutex,    \* the sync.RWMutex: [w: writer or "none", held: BOOLEAN, r: readers]
    done,     \* the done channel: "nil", "open" or "closed"
    mpc,      \* position of the goroutine that runs Start and Stop
    tpc,      \* position of the reload timer goroutine
    ld,       \* locals of the loadDatabase call of each loader
    nextGen,  \* generation the next loadDatabase call that opens files gets
    ticks,    \* ticks the ticker has yet to deliver
    stops,    \* calls of Stop so far
    req       \* locals of each request's performLookup

vars == <<conf, slots, opened, closed, mutex, done, mpc, tpc, ld, nextGen, ticks, stops, req>>

\* ------------------------------------------------------------------ sync.RWMutex
\* Lock(): the writer first takes the writer slot, which from then on keeps new
\* readers out, and holds the lock once the active readers have drained.
NoMutexOwner == "none"

CanLock == mutex.w = NoMutexOwner

Lock(p) == [mutex EXCEPT !.w = p, !.held = (mutex.r = {})]

Drained(p) == mutex.w = p /\ mutex.r = {}

Unlocked == [mutex EXCEPT !.w = NoMutexOwner, !.held = FALSE]

WriteHeld(p) == mutex.w = p /\ mutex.held

\* RLock(): granted when no writer holds or waits for the lock.
CanRLock == mutex.w = NoMutexOwner

RLock(r) == [mutex EXCEPT !.r = @ \cup {r}]

RUnlock(r) == [mutex EXCEPT !.r = @ \ {r}]

\* ------------------------------------------------------------------ handles
Handle(s, g) == <<s, g>>

\* The handles currently bound to a slot.
Bound == {Handle(s, slots[s]) : s \in {t \in Slots : slots[t] # Nil}}

NoHandles == [s \in Slots |-> Nil]

\* GetDatabaseInfo: per slot whether a database is loaded; the metadata (build
\* epoch, database type) of the bound reader for the country, city and global
\* city slots, identified here by the reader's generation.
GetDatabaseInfo(sl) ==
    [loaded |-> [s \in Slots |-> sl[s] # Nil],
     metadata |-> [s \in Slots \ {"ASN"} |-> sl[s]]]

\* ------------------------------------------------------------------ loadDatabase
\* Locals of one loadDatabase call.
\*   pc: "idle" (not running), "validate", "lock", "drain", "open", "close",
\*       "rep_Country", "rep_City", "rep_GlobalCity", "rep_ASN"
\*   valid: the slots whose file passed validateDatabaseFile
\*   asnValid: the local asnDBValid
\*   new: newCountryDB, newCityDB, newGlobalCityDB, newASNDB
\*   res: "none" while running, then what the call returned: "ok" (nil),
\*        "err_Country" or "err_City" (the error names the database)
\*   before: the bindings when the call took the write lock
LoadIdle ==
    [pc |-> "idle", valid |-> {}, asnValid |-> FALSE, new |-> NoHandles,
     res |-> "none", before |-> NoHandles]

CallLoad == [LoadIdle EXCEPT !.pc = "validate"]

InLoad(p) == ld[p].pc # "idle"

IsErr(result) == result \in {"err_Country", "err_City"}

\* The call has returned: its locals are gone, its result is with the caller.
Returned(l, result) == [LoadIdle EXCEPT !.res = result]

\* validateDatabaseFile on the four paths, then the decision of loadDatabase:
\* the outcome of each check is the environment's (v: the slots whose file is
\* valid now). Country and city failures return an error; a global city failure
\* only logs; the ASN file is validated only when its path is configured.
ValidationResult(v) ==
    IF "Country" \notin v THEN "err_Country"
    ELSE IF "City" \notin v THEN "err_City"
    ELSE "ok"

LoadValidate(p) ==
    /\ ld[p].pc = "validate"
    /\ \E v \in SUBSET Slots :
         /\ (~conf.asnPath => "ASN" \notin v)
         /\ IF IsErr(ValidationResult(v))
            THEN ld' = [ld EXCEPT ![p] = Returned(@, ValidationResult(v))]
            ELSE ld' = [ld EXCEPT ![p] = [@ EXCEPT !.valid = v,
                                                   !.asnValid = conf.asnPath /\ "ASN" \in v,
                                                   !.pc = "lock"]]
    /\ UNCHANGED <<conf, slots, opened, closed, mutex, done, mpc, tpc, nextGen, ticks, stops, req>>

\* Mutant of LoadLock: the call goes on to open the files without the lock.
LoadLock_Skip(p) ==
    /\ ld[p].pc = "lock"
    /\ ld' = [ld EXCEPT ![p] = [@ EXCEPT !.pc = "open", !.before = slots]]
    /\ UNCHANGED <<conf, slots, opened, closed, mutex, done, mpc, tpc, nextGen, ticks, stops, req>>

\* g.mutex.Lock()
LoadLock(p) ==
    /\ ld[p].pc = "lock"
    /\ CanLock
    /\ mutex' = Lock(p)
    /\ ld' = [ld EXCEPT ![p] = [@ EXCEPT !.pc = IF mutex.r = {} THEN "open" ELSE "drain",
                                         !.before = slots]]
    /\ UNCHANGED <<conf, slots, opened, closed, done, mpc, tpc, nextGen, ticks, stops, req>>

LoadDrain(p) ==
    /\ ld[p].pc = "drain"
    /\ Drained(p)
    /\ mutex' = [mutex EXCEPT !.held = TRUE]
    /\ ld' = [ld EXCEPT ![p] = [@ EXCEPT !.pc = "open", !.before = slots]]
    /\ UNCHANGED <<conf, slots, opened, closed, done, mpc, tpc, nextGen, ticks, stops, req>>

\* The four maxminddb.Open calls (o: the slots whose file opens now) and the
\* handles they leave in the locals: a country or city failure returns an
\* error, a global city or ASN failure leaves that local nil. The ASN file is
\* opened only if asnDBValid.
OpenResult(o) ==
    IF "Country" \notin o THEN "err_Country"
    ELSE IF "City" \notin o THEN "err_City"
    ELSE "ok"

\* The files opened before loadDatabase returns or goes on.
OpenedFiles(o, asnValid) ==
    IF "Country" \notin o THEN {}
    ELSE IF "City" \notin o THEN {"Country"}
    ELSE {"Country", "City"}
         \cup (IF "GlobalCity" \in o THEN {"GlobalCity"} ELSE {})
         \cup (IF asnValid /\ "ASN" \in o THEN {"ASN"} ELSE {})

\* Mutant of LoadOpen: the new country handle is installed as soon as it is
\* open, before the city file is opened.
LoadOpen_EagerInstall(p) ==
    /\ ld[p].pc = "open"
    /\ nextGen <= MaxGen
    /\ \E o \in SUBSET Slots :
         LET files == OpenedFiles(o, ld[p].asnValid)
             fresh == [s \in Slots |-> IF s \in files THEN nextGen ELSE Nil]
         IN /\ opened' = opened \cup {Handle(s, nextGen) : s \in files}
            /\ nextGen' = IF files = {} THEN nextGen ELSE nextGen + 1
            /\ slots' = IF "Country" \in files
                        THEN [slots EXCEPT !["Country"] = nextGen] ELSE slots
            /\ IF IsErr(OpenResult(o))
               THEN /\ ld' = [ld EXCEPT ![p] = Returned(@, OpenResult(o))]
                    /\ mutex' = Unlocked
               ELSE /\ ld' = [ld EXCEPT ![p] = [@ EXCEPT !.new = fresh, !.pc = "close"]]
                    /\ UNCHANGED mutex
    /\ UNCHANGED <<conf, closed, done, mpc, tpc, ticks, stops, req>>

LoadOpen(p) ==
    /\ ld[p].pc = "open"
    /\ nextGen <= MaxGen
    /\ \E o \in SUBSET Slots :
         LET files == OpenedFiles(o, ld[p].asnValid)
             fresh == [s \in Slots |-> IF s \in files THEN nextGen ELSE Nil]
         IN /\ opened' = opened \cup {Handle(s, nextGen) : s \in files}
            /\ nextGen' = IF files = {} THEN nextGen ELSE nextGen + 1
            /\ IF IsErr(OpenResult(o))
               THEN /\ ld' = [ld EXCEPT ![p] = Returned(@, OpenResult(o))]
                    /\ mutex' = Unlocked
               ELSE /\ ld' = [ld EXCEPT ![p] = [@ EXCEPT !.new = fresh, !.pc = "close"]]
                    /\ UNCHANGED mutex
    /\ UNCHANGED <<conf, slots, closed, done, mpc, tpc, ticks, stops, req>>

\* Mutant of LoadClose: closing an old database also sets its handler to nil.
LoadClose_Unbind(p) ==
    /\ ld[p].pc = "close"
    /\ closed' = closed \cup Bound
    /\ slots' = NoHandles
    /\ ld' = [ld EXCEPT ![p] = [@ EXCEPT !.pc = "rep_Country"]]
    /\ UNCHANGED <<conf, opened, mutex, done, mpc, tpc, nextGen, ticks, stops, req>>

\* Mutant of LoadClose: the old databases are not closed.
LoadClose_Skip(p) ==
    /\ ld[p].pc = "close"
    /\ ld' = [ld EXCEPT ![p] = [@ EXCEPT !.pc = "rep_Country"]]
    /\ UNCHANGED <<conf, slots, opened, closed, mutex, done, mpc, tpc, nextGen, ticks, stops, req>>

\* "Close old databases if present"
LoadClose(p) ==
    /\ ld[p].pc = "close"
    /\ closed' = closed \cup Bound
    /\ ld' = [ld EXCEPT ![p] = [@ EXCEPT !.pc = "rep_Country"]]
    /\ UNCHANGED <<conf, slots, opened, mutex, done, mpc, tpc, nextGen, ticks, stops, req>>

\* "Replace with new databases": four assignments, then return nil (the
\* deferred Unlock runs).
RepSlot(pc) ==
    CASE pc = "rep_Country" -> "Country"
      [] pc = "rep_City" -> "City"
      [] pc = "rep_GlobalCity" -> "GlobalCity"
      [] pc = "rep_ASN" -> "ASN"

RepNext(pc) ==
    CASE pc = "rep_Country" -> "rep_City"
      [] pc = "rep_City" -> "rep_GlobalCity"
      [] pc = "rep_GlobalCity" -> "rep_ASN"
      [] pc = "rep_ASN" -> "idle"

RepPcs == {"rep_Country", "rep_City", "rep_GlobalCity", "rep_ASN"}

\* Mutant of LoadReplace: a slot that is bound keeps its old handle.
LoadReplace_KeepBound(p) ==
    /\ ld[p].pc \in RepPcs
    /\ slots' = IF slots[RepSlot(ld[p].pc)] # Nil THEN slots
                ELSE [slots EXCEPT ![RepSlot(ld[p].pc)] = ld[p].new[RepSlot(ld[p].pc)]]
    /\ IF RepNext(ld[p].pc) = "idle"
       THEN /\ ld' = [ld EXCEPT ![p] = Returned(@, "ok")]
            /\ mutex' = Unlocked
       ELSE /\ ld' = [ld EXCEPT ![p] = [@ EXCEPT !.pc = RepNext(ld[p].pc)]]
            /\ UNCHANGED mutex
    /\ UNCHANGED <<conf, opened, closed, done, mpc, tpc, nextGen, ticks, stops, req>>

\* Mutant of LoadReplace: loadDatabase returns without releasing the lock.
LoadReplace_KeepLock(p) ==
    /\ ld[p].pc \in RepPcs
    /\ slots' = [slots EXCEPT ![RepSlot(ld[p].pc)] = ld[p].new[RepSlot(ld[p].pc)]]
    /\ IF RepNext(ld[p].pc) = "idle"
       THEN ld' = [ld EXCEPT ![p] = Returned(@, "ok")]
       ELSE ld' = [ld EXCEPT ![p] = [@ EXCEPT !.pc = RepNext(ld[p].pc)]]
    /\ UNCHANGED <<conf, opened, closed, mutex, done, mpc, tpc, nextGen, ticks, stops, req>>

LoadReplace(p) ==
    /\ ld[p].pc \in RepPcs
    /\ slots' = [slots EXCEPT ![RepSlot(ld[p].pc)] = ld[p].new[RepSlot(ld[p].pc)]]
    /\ IF RepNext(ld[p].pc) = "idle"
       THEN /\ ld' = [ld EXCEPT ![p] = Returned(@, "ok")]
            /\ mutex' = Unlocked
       ELSE /\ ld' = [ld EXCEPT ![p] = [@ EXCEPT !.pc = RepNext(ld[p].pc)]]
            /\ UNCHANGED mutex
    /\ UNCHANGED <<conf, opened, closed, done, mpc, tpc, nextGen, ticks, stops, req>>

\* ------------------------------------------------------------------ Start, timer, Stop
\* Start: loadDatabase, then startReloadTimer if ReloadInterval > 0.
\* mpc: "config" (configuration not read), "rejected" (UnmarshalCaddyfile
\*      returned an error), "validate", "invalid" (Validate returned an error),
\*      "start", "loading", "failed" (Start returned the error), "running",
\*      "stop_lock", "stop_drain", "stop_Country", "stop_City",
\*      "stop_GlobalCity", "stop_ASN", "stopped", "panic"
Start ==
    /\ mpc = "start"
    /\ mpc' = "loading"
    /\ ld' = [ld EXCEPT !["main"] = CallLoad]
    /\ UNCHANGED <<conf, slots, opened, closed, mutex, done, tpc, nextGen, ticks, stops, req>>

\* Mutant of TimerWanted: the timer is started whatever the interval.
TimerWanted_Always == TRUE

\* if g.ReloadInterval > 0
TimerWanted == conf.interval > 0

StartReturn ==
    /\ mpc = "loading"
    /\ ld["main"].pc = "idle"
    /\ ld["main"].res # "none"
    /\ IF IsErr(ld["main"].res)
       THEN /\ mpc' = "failed"
            /\ UNCHANGED <<done, tpc>>
       ELSE /\ mpc' = "running"
            /\ IF TimerWanted
               THEN done' = "open" /\ tpc' = "select"
               ELSE UNCHANGED <<done, tpc>>
    /\ UNCHANGED <<conf, slots, opened, closed, mutex, ld, nextGen, ticks, stops, req>>

\* Mutant of TimerTick: after a failed reload no further tick is served.
TimerTick_StopOnError ==
    /\ tpc = "select"
    /\ ~InLoad("timer")
    /\ ~IsErr(ld["timer"].res)
    /\ ticks > 0
    /\ ticks' = ticks - 1
    /\ ld' = [ld EXCEPT !["timer"] = CallLoad]
    /\ UNCHANGED <<conf, slots, opened, closed, mutex, done, mpc, tpc, nextGen, stops, req>>

\* The timer goroutine's select: a tick runs performScheduledReload, which
\* calls loadDatabase and logs its result; a closed done channel ends the
\* goroutine. When both are ready the select takes either.
TimerTick ==
    /\ tpc = "select"
    /\ ~InLoad("timer")
    /\ ticks > 0
    /\ ticks' = ticks - 1
    /\ ld' = [ld EXCEPT !["timer"] = CallLoad]
    /\ UNCHANGED <<conf, slots, opened, closed, mutex, done, mpc, tpc, nextGen, stops, req>>

TimerDone ==
    /\ tpc = "select"
    /\ ~InLoad("timer")
    /\ done = "closed"
    /\ tpc' = "exited"
    /\ UNCHANGED <<conf, slots, opened, closed, mutex, done, mpc, ld, nextGen, ticks, stops, req>>

\* Stop: close(g.done) if the timer was started (closing a closed channel
\* panics), then under the write lock close and nil every bound handle.
StopSignal ==
    /\ mpc \in {"running", "stopped"}
    /\ stops < MaxStops
    /\ stops' = stops + 1
    /\ IF done = "nil"
       THEN mpc' = "stop_lock" /\ UNCHANGED done
       ELSE IF done = "closed"
       THEN mpc' = "panic" /\ UNCHANGED done
       ELSE mpc' = "stop_lock" /\ done' = "closed"
    /\ UNCHANGED <<conf, slots, opened, closed, mutex, tpc, ld, nextGen, ticks, req>>

\* Mutant of StopLock: Stop does not wait for the readers to release the lock.
StopLock_NoDrain ==
    /\ mpc = "stop_lock"
    /\ CanLock
    /\ mutex' = [mutex EXCEPT !.w = "main", !.held = TRUE]
    /\ mpc' = "stop_Country"
    /\ UNCHANGED <<conf, slots, opened, closed, done, tpc, ld, nextGen, ticks, stops, req>>

StopLock ==
    /\ mpc = "stop_lock"
    /\ CanLock
    /\ mutex' = Lock("main")
    /\ mpc' = IF mutex.r = {} THEN "stop_Country" ELSE "stop_drain"
    /\ UNCHANGED <<conf, slots, opened, closed, done, tpc, ld, nextGen, ticks, stops, req>>

StopDrain ==
    /\ mpc = "stop_drain"
    /\ Drained("main")
    /\ mutex' = [mutex EXCEPT !.held = TRUE]
    /\ mpc' = "stop_Country"
    /\ UNCHANGED <<conf, slots, opened, closed, done, tpc, ld, nextGen, ticks, stops, req>>

StopSlot(pc) ==
    CASE pc = "stop_Country" -> "Country"
      [] pc = "stop_City" -> "City"
      [] pc = "stop_GlobalCity" -> "GlobalCity"
      [] pc = "stop_ASN" -> "ASN"

StopNext(pc) ==
    CASE pc = "stop_Country" -> "stop_City"
      [] pc = "stop_City" -> "stop_GlobalCity"
      [] pc = "stop_GlobalCity" -> "stop_ASN"
      [] pc = "stop_ASN" -> "stopped"

StopPcs == {"stop_Country", "stop_City", "stop_GlobalCity", "stop_ASN"}

\* Mutant of StopClose: Stop closes the handles and leaves the fields as they are.
StopClose_NoUnbind ==
    /\ mpc \in StopPcs
    /\ LET s == StopSlot(mpc)
       IN IF slots[s] # Nil
          THEN closed' = closed \cup {Handle(s, slots[s])}
          ELSE UNCHANGED closed
    /\ mpc' = StopNext(mpc)
    /\ mutex' = IF StopNext(mpc) = "stopped" THEN Unlocked ELSE mutex
    /\ UNCHANGED <<conf, slots, opened, done, tpc, ld, nextGen, ticks, stops, req>>

StopClose ==
    /\ mpc \in StopPcs
    /\ LET s == StopSlot(mpc)
       IN IF slots[s] # Nil
          THEN /\ closed' = closed \cup {Handle(s, slots[s])}
               /\ slots' = [slots EXCEPT ![s] = Nil]
          ELSE UNCHANGED <<closed, slots>>
    /\ mpc' = StopNext(mpc)
    /\ mutex' = IF StopNext(mpc) = "stopped" THEN Unlocked ELSE mutex
    /\ UNCHANGED <<conf, opened, done, tpc, ld, nextGen, ticks, stops, req>>

\* ------------------------------------------------------------------ records and variables
\* What a successful Reader.Lookup decodes into CountryRecord, CityRecord and
\* ASNRecord. Numbers are carried as their decimal text.
CountryRecords ==
    {[iso |-> "US", eu |-> FALSE, reg |-> FALSE],
     [iso |-> "DE", eu |-> TRUE, reg |-> FALSE],
     [iso |-> "GB", eu |-> FALSE, reg |-> TRUE]}

CityRecords ==
    {[names |-> [de |-> "Muenchen", en |-> "Munich"],
      lat |-> "48.1", lon |-> "11.5", subs |-> <<"BY", "OB">>],
     [names |-> [de |-> "", en |-> "Vienna", fr |-> "Vienne"],
      lat |-> "48.2", lon |-> "16.3", subs |-> <<"", "W">>],
     [names |-> [fr |-> "Lisbonne", pt |-> "Lisboa"],
      lat |-> "38.7", lon |-> "-9.1", subs |-> <<>>],
     [names |-> [en |-> "", ja |-> ""],
      lat |-> "35.6", lon |-> "139.6", subs |-> <<"13">>]}

ASNRecords == {[number |-> "3320", org |-> "DTAG"]}

\* The zero values of the record types (a failed or skipped lookup leaves them).
ZeroCountry == [iso |-> "", eu |-> FALSE, reg |-> FALSE]
ZeroCity == [names |-> [l \in {} |-> ""], lat |-> "0", lon |-> "0", subs |-> <<>>]
ZeroASN == [number |-> "0", org |-> ""]

\* Replacer values: the Go value with its dynamic type.
Str(x) == <<"string", x>>
Bool(b) == <<"bool", IF b THEN "true" ELSE "false">>
Float(x) == <<"float64", x>>
Uint(x) == <<"uint64", x>>
Unset == <<"unset", "">>

VarCity == "geoip2_city"
VarCountryCode == "geoip2_country_code"
VarLatitude == "geoip2_latitude"
VarLongitude == "geoip2_longitude"
VarSubdivisions == "geoip2_subdivisions"
VarIsInEU == "geoip2_is_in_eu"
VarASN == "geoip2_asn"
VarASOrg == "geoip2_asorg"

VarNames ==
    {VarCity, VarCountryCode, VarLatitude, VarLongitude, VarSubdivisions,
     VarIsInEU, VarASN, VarASOrg}

\* initializeVariables
InitializedVariables == [v \in VarNames |-> Str("")]

\* Mutant of IsInEU: the registered country is not looked at.
IsInEU_CountryOnly(rec) == rec.eu

\* isInEU = Country.IsInEuropeanUnion || RegisteredCountry.IsInEuropeanUnion
IsInEU(rec) == rec.eu \/ rec.reg

\* Mutant of CityNames: the English name is preferred to the German one.
CityNames_EnglishFirst(names) ==
    IF "en" \in DOMAIN names /\ names["en"] # "" THEN {names["en"]}
    ELSE IF "de" \in DOMAIN names /\ names["de"] # "" THEN {names["de"]}
    ELSE LET nonEmpty == {names[l] : l \in {k \in DOMAIN names : names[k] # ""}}
         IN IF nonEmpty = {} THEN {""} ELSE nonEmpty

\* The city names the name selection can yield: "de", else "en", else any
\* non-empty name in the order the map iteration happens to take, else "".
CityNames(names) ==
    IF "de" \in DOMAIN names /\ names["de"] # "" THEN {names["de"]}
    ELSE IF "en" \in DOMAIN names /\ names["en"] # "" THEN {names["en"]}
    ELSE LET nonEmpty == {names[l] : l \in {k \in DOMAIN names : names[k] # ""}}
         IN IF nonEmpty = {} THEN {""} ELSE nonEmpty

\* Mutant of Subdivision: the first non-empty code of the list is taken.
Subdivision_FirstNonEmpty(subs) ==
    LET filled == {i \in 1..Len(subs) : subs[i] # ""}
    IN IF filled = {} THEN ""
       ELSE subs[CHOOSE i \in filled : \A j \in filled : i <= j]

\* Subdivisions[0].IsoCode if there is one and it is non-empty
Subdivision(subs) ==
    IF Len(subs) > 0 /\ subs[1] # "" THEN subs[1] ELSE ""

\* The eight repl.Set calls that end performLookup, from its locals.
SetVariables(l) ==
    [v \in VarNames |->
        CASE v = VarCountryCode -> Str(l.countryCode)
          [] v = VarIsInEU -> Bool(l.isInEU)
          [] v = VarCity -> Str(l.cityName)
          [] v = VarLatitude -> Float(l.latitude)
          [] v = VarLongitude -> Float(l.longitude)
          [] v = VarSubdivisions -> Str(l.subdivision)
          [] v = VarASN -> Uint(l.asnNumber)
          [] v = VarASOrg -> Str(l.asnOrg)]

\* The locals of performLookup, at their zero values.
ZeroLocals ==
    [countryCode |-> "", isInEU |-> FALSE, cityName |-> "", latitude |-> "0",
     longitude |-> "0", subdivision |-> "", asnNumber |-> "0", asnOrg |-> ""]

\* ------------------------------------------------------------------ client address
\* Texts (RemoteAddr, the X-Forwarded-For value, an address) are sequences of
\* tokens: the characters the code looks for (":", ",", " ", "[", "]") are
\* tokens of their own, a dotted quad or a group of hex digits is one token.
\* *http.Request: remote is RemoteAddr, xff is Header.Get("X-Forwarded-For")
\* (<<>> when the header is absent), trusted is Caddy's TrustedProxyVarKey.
NoRequest == [remote |-> <<>>, xff |-> <<>>, trusted |-> FALSE]

\* The texts net.ParseIP accepts, among those the inputs are built from.
IPs ==
    {<<"203.0.113.7">>, <<"198.51.100.9">>, <<"10.0.0.1">>,
     <<"2001", ":", "db8", ":", ":", "1">>}

\* net.ParseIP: the address, or <<>> for nil.
ParseIP(text) == IF text \in IPs THEN text ELSE <<>>

Positions(text, tok) == {i \in 1..Len(text) : text[i] = tok}
Max(S) == CHOOSE i \in S : \A j \in S : j <= i
Min(S) == CHOOSE i \in S : \A j \in S : i <= j

\* net.SplitHostPort: host is the text before the last ":", which must hold
\* no ":" unless the host is bracketed; err is "none", "missing port in
\* address" or another AddrError.
SplitHostPort(hostport) ==
    LET colons == Positions(hostport, ":")
        closes == Positions(hostport, "]")
        i == Max(colons)
        end == Min(closes)
        fail(e) == [host |-> <<>>, err |-> e]
    IN IF colons = {} THEN fail("missing port in address")
       ELSE IF hostport[1] = "["
       THEN IF closes = {} THEN fail("missing ']' in address")
            ELSE IF end = Len(hostport) THEN fail("missing port in address")
            ELSE IF end + 1 # i
                 THEN IF hostport[end + 1] = ":" THEN fail("too many colons in address")
                      ELSE fail("missing port in address")
            ELSE IF Positions(SubSeq(hostport, 2, Len(hostport)), "[") # {}
                 THEN fail("unexpected '[' in address")
            ELSE IF Positions(SubSeq(hostport, end + 2, Len(hostport)), "]") # {}
                 THEN fail("unexpected ']' in address")
            ELSE [host |-> SubSeq(hostport, 2, end - 1), err |-> "none"]
       ELSE IF Positions(SubSeq(hostport, 1, i - 1), ":") # {}
            THEN fail("too many colons in address")
       ELSE IF Positions(hostport, "[") # {} THEN fail("unexpected '[' in address")
       ELSE IF closes # {} THEN fail("unexpected ']' in address")
       ELSE [host |-> SubSeq(hostport, 1, i - 1), err |-> "none"]

\* strings.Split(text, ", ")[0]: the text before the first comma that is
\* followed by a space; the whole text when there is none.
FirstPiece(text) ==
    LET seps == {i \in 1..(Len(text) - 1) : text[i] = "," /\ text[i + 1] = " "}
    IN IF seps = {} THEN text ELSE SubSeq(text, 1, Min(seps) - 1)

\* strings.TrimSpace
RECURSIVE TrimSpace(_)
TrimSpace(text) ==
    IF text = <<>> THEN text
    ELSE IF Head(text) = " " THEN TrimSpace(Tail(text))
    ELSE IF text[Len(text)] = " " THEN TrimSpace(SubSeq(text, 1, Len(text) - 1))
    ELSE text

\* strings.ToLower on the spellings of Enable that are modelled.
ToLower(str) ==
    CASE str \in {"Strict", "STRICT"} -> "strict"
      [] str \in {"Wild", "WILD"} -> "wild"
      [] str \in {"Off", "OFF"} -> "off"
      [] str \in {"False", "FALSE"} -> "false"
      [] OTHER -> str

\* getSafetyLevel
getSafetyLevel(enable) ==
    CASE ToLower(enable) = "strict" -> "Strict"
      [] ToLower(enable) = "wild" -> "Wild"
      [] OTHER -> "TrustedProxies"

\* getClientIP of a handler with the given Enable on HTTP request h: the
\* address (<<>> for nil) and the error ("none" for nil).
getClientIP(enable, h) ==
    LET safeLevel == getSafetyLevel(enable)
        forwarded == /\ \/ (safeLevel = "TrustedProxies" /\ h.trusted)
                        \/ safeLevel = "Wild"
                     /\ h.xff # <<>>
        split == SplitHostPort(h.remote)
        ipStr == IF forwarded THEN TrimSpace(FirstPiece(h.xff))
                 ELSE IF split.err = "none" THEN split.host
                 ELSE h.remote
    IN IF ~forwarded /\ split.err \notin {"none", "missing port in address"}
       THEN [ip |-> <<>>, err |-> split.err]
       ELSE IF ParseIP(ipStr) = <<>> THEN [ip |-> <<>>, err |-> "invalid IP address"]
       ELSE [ip |-> ParseIP(ipStr), err |-> "none"]

\* ------------------------------------------------------------------ ServeHTTP / performLookup
\* Locals of one request.
\*   pc: "start", "chk_Country", "chk_City", "chk_GlobalCity", "chk_ASN",
\*       "rlock_<slot>" (in g.mutex.RLock of the slot's lookup method),
\*       "query_<slot>" (holding the read lock), "done"
\*   read: slots whose handler field performLookup has read (its nil checks)
\*   obs: those of them it found non-nil
\*   fn: cityLookupFunc ("none" for nil)
\*   called: the slots whose lookup method was called
\*   q: per slot the generation of the handle Reader.Lookup ran on (0: none)
\*   res: per slot the lookup method's result: "none" (not called), "err", "ok"
\*   cityRecord: the local cityRecord (what the city lookup decoded)
\*   loc: the locals countryCode ... asnOrg
\*   vars: the replacer's geoip2 variables
\*   enable, hasState: the fields Enable and state (non-nil?) of the handler
\*       value m the request is served by
\*   http: the *http.Request getClientIP was called with
\*   clientIP: the address getClientIP returned (<<>> for nil)
\*   nextCalls: calls of next.ServeHTTP made for the request
\*   nextRes: what next.ServeHTTP returned ("none" before it is called)
\*   ret: what ServeHTTP returned ("none" while it runs)
\* pc is "done" when performLookup has returned or was skipped, "returned"
\* when ServeHTTP has returned.
ReqInit ==
    [pc |-> "start", ipOK |-> FALSE, read |-> {}, obs |-> {}, fn |-> "none",
     called |-> {}, q |-> NoHandles, res |-> [s \in Slots |-> "none"],
     cityRecord |-> ZeroCity,
     loc |-> ZeroLocals, vars |-> [v \in VarNames |-> Unset],
     enable |-> "", hasState |-> FALSE,
     http |-> NoRequest, clientIP |-> <<>>,
     nextCalls |-> 0, nextRes |-> "none", ret |-> "none"]

\* The handler values requests are served by: Enable, and whether Provision
\* has linked the handler to the shared state.
Enables == {"trusted_proxies", "off"}
Handlers == [Enable : Enables, state : BOOLEAN]

\* The HTTP requests served: a direct connection from a client, and a request
\* whose RemoteAddr holds no address.
HTTPRequests ==
    {[remote |-> <<"203.0.113.7", ":", "4711">>, xff |-> <<>>, trusted |-> FALSE],
     [remote |-> <<"@">>, xff |-> <<>>, trusted |-> FALSE]}

\* What the next handler of the chain can return.
HandlerResults == {"nil", "error"}

isEnabled(enable) == enable \notin {"off", "false", "0"}

RLockPc(s) == "rlock_" \o s
QueryPc(s) == "query_" \o s
CheckPc(s) == "chk_" \o s

\* The nil check of a handler field, made without the lock.
NilCheck(rq, s) ==
    [rq EXCEPT !.read = @ \cup {s},
               !.obs = IF slots[s] # Nil THEN @ \cup {s} ELSE @]

\* Calling the lookup method of slot s: it starts with g.mutex.RLock().
CallLookup(rq, s) == [rq EXCEPT !.called = @ \cup {s}, !.pc = RLockPc(s)]

\* The end of performLookup: the eight repl.Set calls.
Finish(rq) == [rq EXCEPT !.vars = SetVariables(rq.loc), !.pc = "done"]

\* Mutant of AfterGetClientIP: the error of getClientIP is ignored.
AfterGetClientIP_NoReturn(rq, h) ==
    LET ip == getClientIP(rq.enable, h)
    IN [rq EXCEPT !.http = h, !.clientIP = ip.ip, !.ipOK = ip.err = "none",
                  !.pc = CheckPc("Country")]

\* clientIP, err := m.getClientIP(r); if err != nil { return }
AfterGetClientIP(rq, h) ==
    LET ip == getClientIP(rq.enable, h)
    IN [rq EXCEPT !.http = h, !.clientIP = ip.ip, !.ipOK = ip.err = "none",
                  !.pc = IF ip.err = "none" THEN CheckPc("Country") ELSE "done"]

\* Mutant of performLookup: a missing state or an unparsable address ends the
\* request with an error, the next handler is not called.
performLookup_FailRequest(rq, h) ==
    IF ~rq.hasState \/ getClientIP(rq.enable, h).err # "none"
    THEN [rq EXCEPT !.ret = "error", !.pc = "returned"]
    ELSE AfterGetClientIP(rq, h)

\* performLookup up to getClientIP: if m.state == nil { return }; h is the
\* HTTP request.
performLookup(rq, h) ==
    IF ~rq.hasState THEN [rq EXCEPT !.pc = "done"]
    ELSE AfterGetClientIP(rq, h)

\* ServeHTTP on a handler value of handlers and an HTTP request of requests:
\* initializeVariables, then performLookup if m.isEnabled().
Serve(r, handlers, requests) ==
    /\ req[r].pc = "start"
    /\ \E m \in handlers : \E h \in requests :
         LET rq == [req[r] EXCEPT !.vars = InitializedVariables,
                                  !.enable = m.Enable,
                                  !.hasState = m.state]
         IN req' = [req EXCEPT ![r] =
                       IF isEnabled(m.Enable) THEN performLookup(rq, h)
                       ELSE [rq EXCEPT !.pc = "done"]]
    /\ UNCHANGED <<conf, slots, opened, closed, mutex, done, mpc, tpc, ld, nextGen, ticks, stops>>

ServeHTTP(r) == Serve(r, Handlers, HTTPRequests)

\* if m.state.CountryDBHandler != nil { m.state.Lookup(...) }
AfterCountryCheck(rq) ==
    IF "Country" \in rq.obs THEN CallLookup(rq, "Country")
    ELSE [rq EXCEPT !.pc = CheckPc("City")]

CheckCountry(r) ==
    /\ req[r].pc = CheckPc("Country")
    /\ req' = [req EXCEPT ![r] = AfterCountryCheck(NilCheck(@, "Country"))]
    /\ UNCHANGED <<conf, slots, opened, closed, mutex, done, mpc, tpc, ld, nextGen, ticks, stops>>

\* Mutant of AcquireRLock: the read lock is granted while a writer holds the lock.
AcquireRLock_NoWait(r) ==
    /\ \E s \in Slots : req[r].pc = RLockPc(s)
    /\ mutex' = RLock(r)
    /\ req' = [req EXCEPT ![r] = [@ EXCEPT !.pc =
                  QueryPc(CHOOSE s \in Slots : req[r].pc = RLockPc(s))]]
    /\ UNCHANGED <<conf, slots, opened, closed, done, mpc, tpc, ld, nextGen, ticks, stops>>

\* Mutant of AcquireRLock: the read lock admits one reader at a time.
AcquireRLock_Exclusive(r) ==
    /\ \E s \in Slots : req[r].pc = RLockPc(s)
    /\ CanRLock
    /\ mutex.r = {}
    /\ mutex' = RLock(r)
    /\ req' = [req EXCEPT ![r] = [@ EXCEPT !.pc =
                  QueryPc(CHOOSE s \in Slots : req[r].pc = RLockPc(s))]]
    /\ UNCHANGED <<conf, slots, opened, closed, done, mpc, tpc, ld, nextGen, ticks, stops>>

\* g.mutex.RLock() of Lookup, LookupCity, LookupGlobalCity, LookupASN
AcquireRLock(r) ==
    /\ \E s \in Slots : req[r].pc = RLockPc(s)
    /\ CanRLock
    /\ mutex' = RLock(r)
    /\ req' = [req EXCEPT ![r] = [@ EXCEPT !.pc =
                  QueryPc(CHOOSE s \in Slots : req[r].pc = RLockPc(s))]]
    /\ UNCHANGED <<conf, slots, opened, closed, done, mpc, tpc, ld, nextGen, ticks, stops>>

\* What Reader.Lookup can do: fail, or decode one of the records.
Outcomes(records, zero) ==
    {[failed |-> TRUE, rec |-> zero]} \cup {[failed |-> FALSE, rec |-> c] : c \in records}

\* The body of a lookup method under the read lock: "not loaded" if the
\* handler is nil, else Reader.Lookup on it, which fails or not.
LookupResult(rq, s, failed) ==
    [rq EXCEPT !.res[s] = IF slots[s] = Nil \/ failed THEN "err" ELSE "ok",
               !.q[s] = slots[s]]

\* Mutant of CountryLocals: a failed country lookup marks the address as EU.
CountryLocals_FailToEU(rq, rec) ==
    IF rq.res["Country"] = "ok"
    THEN [rq EXCEPT !.loc.countryCode = rec.iso, !.loc.isInEU = IsInEU(rec)]
    ELSE [rq EXCEPT !.loc.isInEU = TRUE]

\* Lookup on the country database and what performLookup does with it.
CountryLocals(rq, rec) ==
    IF rq.res["Country"] = "ok"
    THEN [rq EXCEPT !.loc.countryCode = rec.iso, !.loc.isInEU = IsInEU(rec)]
    ELSE rq

\* Mutant of AfterCountryQuery: a failed country lookup ends performLookup.
AfterCountryQuery_Abort(rq) ==
    IF rq.res["Country"] = "err" THEN Finish(rq)
    ELSE [rq EXCEPT !.pc = CheckPc("City")]

\* A failed country lookup is logged; the city decision follows either way.
AfterCountryQuery(rq) == [rq EXCEPT !.pc = CheckPc("City")]

QueryCountry(r) ==
    /\ req[r].pc = QueryPc("Country")
    /\ \E out \in Outcomes(CountryRecords, ZeroCountry) :
         req' = [req EXCEPT ![r] =
                    AfterCountryQuery(
                        CountryLocals(LookupResult(@, "Country", out.failed), out.rec))]
    /\ mutex' = RUnlock(r)
    /\ UNCHANGED <<conf, slots, opened, closed, done, mpc, tpc, ld, nextGen, ticks, stops>>

\* if isInEU && m.state.CityDBHandler != nil { cityLookupFunc = LookupCity }
\* else if m.state.GlobalCityDBHandler != nil { ... = LookupGlobalCity }
\* The two handler fields are read one after the other.
AfterGlobalCheck(rq) ==
    IF "GlobalCity" \in rq.obs
    THEN CallLookup([rq EXCEPT !.fn = "GlobalCity"], "GlobalCity")
    ELSE [rq EXCEPT !.pc = CheckPc("ASN")]

AfterCityCheck(rq) ==
    IF "City" \in rq.obs
    THEN CallLookup([rq EXCEPT !.fn = "City"], "City")
    ELSE [rq EXCEPT !.pc = CheckPc("GlobalCity")]

CheckCity(r) ==
    /\ req[r].pc = CheckPc("City")
    /\ req' = [req EXCEPT ![r] =
                  IF @.loc.isInEU
                  THEN AfterCityCheck(NilCheck(@, "City"))
                  ELSE AfterGlobalCheck(NilCheck(@, "GlobalCity"))]
    /\ UNCHANGED <<conf, slots, opened, closed, mutex, done, mpc, tpc, ld, nextGen, ticks, stops>>

CheckGlobalCity(r) ==
    /\ req[r].pc = CheckPc("GlobalCity")
    /\ req' = [req EXCEPT ![r] = AfterGlobalCheck(NilCheck(@, "GlobalCity"))]
    /\ UNCHANGED <<conf, slots, opened, closed, mutex, done, mpc, tpc, ld, nextGen, ticks, stops>>

\* cityLookupFunc(clientIP, &cityRecord) and the extraction of its fields;
\* name is the city name the selection yields.
CityLocals(rq, s, rec, name) ==
    IF rq.res[s] = "ok"
    THEN [rq EXCEPT !.cityRecord = rec,
                    !.loc.cityName = name,
                    !.loc.latitude = rec.lat,
                    !.loc.longitude = rec.lon,
                    !.loc.subdivision = Subdivision(rec.subs)]
    ELSE rq

\* Mutant of AfterCityQuery: a failed city lookup ends performLookup without
\* the ASN stage.
AfterCityQuery_SkipASN(rq) ==
    IF \E s \in {"City", "GlobalCity"} : rq.res[s] = "err" THEN Finish(rq)
    ELSE [rq EXCEPT !.pc = CheckPc("ASN")]

\* Mutant of AfterCityQuery: a failed Europe city lookup falls back to the
\* global city database.
AfterCityQuery_Fallback(rq) ==
    IF rq.res["City"] = "err"
    THEN [rq EXCEPT !.pc = CheckPc("GlobalCity")]
    ELSE [rq EXCEPT !.pc = CheckPc("ASN")]

\* A failed city lookup is logged; the ASN lookup follows either way.
AfterCityQuery(rq) == [rq EXCEPT !.pc = CheckPc("ASN")]

QueryCity(r) ==
    /\ \E s \in {"City", "GlobalCity"} :
         /\ req[r].pc = QueryPc(s)
         /\ \E out \in Outcomes(CityRecords, ZeroCity) :
              \E name \in CityNames(out.rec.names) :
                 req' = [req EXCEPT ![r] =
                            AfterCityQuery(CityLocals(LookupResult(@, s, out.failed),
                                                      s, out.rec, name))]
    /\ mutex' = RUnlock(r)
    /\ UNCHANGED <<conf, slots, opened, closed, done, mpc, tpc, ld, nextGen, ticks, stops>>

\* if m.state.ASNDBHandler != nil { m.state.LookupASN(...) }
AfterASNCheck(rq) ==
    IF "ASN" \in rq.obs THEN CallLookup(rq, "ASN") ELSE Finish(rq)

CheckASN(r) ==
    /\ req[r].pc = CheckPc("ASN")
    /\ req' = [req EXCEPT ![r] = AfterASNCheck(NilCheck(@, "ASN"))]
    /\ UNCHANGED <<conf, slots, opened, closed, mutex, done, mpc, tpc, ld, nextGen, ticks, stops>>

ASNLocals(rq, rec) ==
    IF rq.res["ASN"] = "ok"
    THEN [rq EXCEPT !.loc.asnNumber = rec.number, !.loc.asnOrg = rec.org]
    ELSE rq

\* Mutant of QueryASN: a failed ASN query sets the ASN handler to nil.
QueryASN_DropOnError(r) ==
    /\ req[r].pc = QueryPc("ASN")
    /\ \E out \in Outcomes(ASNRecords, ZeroASN) :
         /\ req' = [req EXCEPT ![r] =
                       Finish(ASNLocals(LookupResult(@, "ASN", out.failed), out.rec))]
         /\ slots' = IF out.failed THEN [slots EXCEPT !["ASN"] = Nil] ELSE slots
    /\ mutex' = RUnlock(r)
    /\ UNCHANGED <<conf, opened, closed, done, mpc, tpc, ld, nextGen, ticks, stops>>

QueryASN(r) ==
    /\ req[r].pc = QueryPc("ASN")
    /\ \E out \in Outcomes(ASNRecords, ZeroASN) :
         req' = [req EXCEPT ![r] =
                    Finish(ASNLocals(LookupResult(@, "ASN", out.failed), out.rec))]
    /\ mutex' = RUnlock(r)
    /\ UNCHANGED <<conf, slots, opened, closed, done, mpc, tpc, ld, nextGen, ticks, stops>>

\* return next.ServeHTTP(w, r): e is what the next handler returns.
NextHandler(r) ==
    /\ req[r].pc = "done"
    /\ \E e \in HandlerResults :
         req' = [req EXCEPT ![r] = [@ EXCEPT !.nextCalls = @ + 1,
                                            !.nextRes = e,
                                            !.ret = e,
                                            !.pc = "returned"]]
    /\ UNCHANGED <<conf, slots, opened, closed, mutex, done, mpc, tpc, ld, nextGen, ticks, stops>>

\* ------------------------------------------------------------------ specification
Init ==
    /\ conf \in [asnPath : BOOLEAN, interval : Intervals]
    /\ slots = NoHandles
    /\ opened = {}
    /\ closed = {}
    /\ mutex = [w |-> NoMutexOwner, held |-> FALSE, r |-> {}]
    /\ done = "nil"
    /\ mpc = "start"
    /\ tpc = "off"
    /\ ld = [p \in Loaders |-> LoadIdle]
    /\ nextGen = 1
    /\ ticks = MaxTicks
    /\ stops = 0
    /\ req = [r \in Workers |-> ReqInit]

Next ==
    \/ Start
    \/ StartReturn
    \/ TimerTick
    \/ TimerDone
    \/ StopSignal
    \/ StopLock
    \/ StopDrain
    \/ StopClose
    \/ \E p \in DOMAIN ld : LoadValidate(p)
    \/ \E p \in DOMAIN ld : LoadLock(p)
    \/ \E p \in DOMAIN ld : LoadDrain(p)
    \/ \E p \in DOMAIN ld : LoadOpen(p)
    \/ \E p \in DOMAIN ld : LoadClose(p)
    \/ \E p \in DOMAIN ld : LoadReplace(p)
    \/ \E r \in DOMAIN req : ServeHTTP(r)
    \/ \E r \in DOMAIN req : CheckCountry(r)
    \/ \E r \in DOMAIN req : AcquireRLock(r)
    \/ \E r \in DOMAIN req : QueryCountry(r)
    \/ \E r \in DOMAIN req : CheckCity(r)
    \/ \E r \in DOMAIN req : CheckGlobalCity(r)
    \/ \E r \in DOMAIN req : QueryCity(r)
    \/ \E r \in DOMAIN req : CheckASN(r)
    \/ \E r \in DOMAIN req : QueryASN(r)
    \/ \E r \in DOMAIN req : NextHandler(r)

Spec == Init /\ [][Next]_vars

\* Fair scheduling: a goroutine that can take a step eventually takes one.
\* That holds for the goroutine of each request, for each loadDatabase call,
\* for Stop once it has been called and for Start's return; when Stop is
\* called and when the ticker fires is left to the environment.
RequestStep(r) ==
    \/ ServeHTTP(r)
    \/ CheckCountry(r)
    \/ AcquireRLock(r)
    \/ QueryCountry(r)
    \/ CheckCity(r)
    \/ CheckGlobalCity(r)
    \/ QueryCity(r)
    \/ CheckASN(r)
    \/ QueryASN(r)
    \/ NextHandler(r)

LoaderStep(p) ==
    \/ LoadValidate(p)
    \/ LoadLock(p)
    \/ LoadDrain(p)
    \/ LoadOpen(p)
    \/ LoadClose(p)
    \/ LoadReplace(p)

StopStep == StopLock \/ StopDrain \/ StopClose

Fairness ==
    /\ \A r \in Workers : WF_vars(RequestStep(r))
    /\ \A p \in Loaders : WF_vars(LoaderStep(p))
    /\ WF_vars(StopStep)
    /\ WF_vars(StartReturn)

\* Checked for the configuration in which every writer exists: the ASN
\* database and the reload timer are configured.
InitFair ==
    /\ Init
    /\ conf = [asnPath |-> TRUE, interval |-> DefaultReloadHours]

FairSpec == InitFair /\ [][Next]_vars /\ Fairness

\* Concurrent requests: one request goroutine more, served from the state a
\* successful Start leaves with the ASN database configured and no reload
\* timer (ReloadInterval 0); the only writer left is Stop.
InitReaders ==
    /\ conf = [asnPath |-> TRUE, interval |-> 0]
    /\ slots = [s \in Slots |-> 1]
    /\ opened = {Handle(s, 1) : s \in Slots}
    /\ closed = {}
    /\ mutex = [w |-> NoMutexOwner, held |-> FALSE, r |-> {}]
    /\ done = "nil"
    /\ mpc = "running"
    /\ tpc = "off"
    /\ ld = [p \in Loaders |-> IF p = "main" THEN Returned(LoadIdle, "ok") ELSE LoadIdle]
    /\ nextGen = 2
    /\ ticks = MaxTicks
    /\ stops = 0
    /\ req = [r \in 1..(NumRequests + 1) |-> ReqInit]

NextReaders ==
    \/ StopSignal
    \/ StopLock
    \/ StopDrain
    \/ StopClose
    \/ \E r \in DOMAIN req : ServeHTTP(r)
    \/ \E r \in DOMAIN req : CheckCountry(r)
    \/ \E r \in DOMAIN req : AcquireRLock(r)
    \/ \E r \in DOMAIN req : QueryCountry(r)
    \/ \E r \in DOMAIN req : CheckCity(r)
    \/ \E r \in DOMAIN req : CheckGlobalCity(r)
    \/ \E r \in DOMAIN req : QueryCity(r)
    \/ \E r \in DOMAIN req : CheckASN(r)
    \/ \E r \in DOMAIN req : QueryASN(r)
    \/ \E r \in DOMAIN req : NextHandler(r)

SpecReaders == InitReaders /\ [][NextReaders]_vars

\* One request on the state a successful Start leaves, over the spellings of
\* Enable and the shapes of RemoteAddr and X-Forwarded-For.
EnableTexts ==
    {"strict", "Strict", "wild", "trusted_proxies", "", "off", "OFF", "false",
     "False", "0", "on"}

\* GeoIP2.Validate (the handler's): whether it returns nil.
validModes == {"strict", "wild", "trusted_proxies", "off", "false", "0", ""}
Validate(enable) == ToLower(enable) \in validModes

\* The handler values of a configuration that was accepted and provisioned.
ValidHandlers == {m \in [Enable : EnableTexts, state : {TRUE}] : Validate(m.Enable)}

RemoteAddrs ==
    {<<"203.0.113.7", ":", "4711">>,
     <<"[", "2001", ":", "db8", ":", ":", "1", "]", ":", "4711">>,
     <<"203.0.113.7">>,
     <<"2001", ":", "db8", ":", ":", "1">>,
     <<"@">>}

ForwardedFors ==
    {<<>>,
     <<"198.51.100.9">>,
     <<"198.51.100.9", ",", " ", "10.0.0.1">>,
     <<"198.51.100.9", ",", "10.0.0.1">>,
     <<" ", "198.51.100.9", " ", ",", " ", "10.0.0.1">>,
     <<"unknown", ",", " ", "10.0.0.1">>}

AnyHTTPRequests == [remote : RemoteAddrs, xff : ForwardedFors, trusted : BOOLEAN]

InitRequest ==
    /\ conf = [asnPath |-> TRUE, interval |-> 0]
    /\ slots = [s \in Slots |-> 1]
    /\ opened = {Handle(s, 1) : s \in Slots}
    /\ closed = {}
    /\ mutex = [w |-> NoMutexOwner, held |-> FALSE, r |-> {}]
    /\ done = "nil"
    /\ mpc = "running"
    /\ tpc = "off"
    /\ ld = [p \in Loaders |-> IF p = "main" THEN Returned(LoadIdle, "ok") ELSE LoadIdle]
    /\ nextGen = 2
    /\ ticks = MaxTicks
    /\ stops = 0
    /\ req = [r \in Workers |-> ReqInit]

NextRequest ==
    \/ \E r \in DOMAIN req : Serve(r, ValidHandlers, AnyHTTPRequests)
    \/ \E r \in DOMAIN req : CheckCountry(r)
    \/ \E r \in DOMAIN req : AcquireRLock(r)
    \/ \E r \in DOMAIN req : QueryCountry(r)
    \/ \E r \in DOMAIN req : CheckCity(r)
    \/ \E r \in DOMAIN req : QueryCity(r)
    \/ \E r \in DOMAIN req : CheckASN(r)
    \/ \E r \in DOMAIN req : QueryASN(r)
    \/ \E r \in DOMAIN req : NextHandler(r)

SpecRequest == InitRequest /\ [][NextRequest]_vars

\* ------------------------------------------------------------------ configuration
\* Texts of the reload_interval argument, as sequences of characters.
Digits == <<"0", "1", "2", "3", "4", "5", "6", "7", "8", "9">>
IsDigit(c) == \E i \in 1..10 : Digits[i] = c
DigitValue(c) == (CHOOSE i \in 1..10 : Digits[i] = c) - 1

RECURSIVE Number(_)
Number(ds) ==
    IF ds = <<>> THEN 0
    ELSE 10 * Number(SubSeq(ds, 1, Len(ds) - 1)) + DigitValue(ds[Len(ds)])

\* strconv.Atoi: an optional sign, then one or more decimal digits.
Atoi(text) ==
    LET signed == text # <<>> /\ text[1] \in {"+", "-"}
        ds == IF signed THEN Tail(text) ELSE text
    IN IF ds = <<>> \/ \E i \in 1..Len(ds) : ~IsDigit(ds[i])
       THEN [n |-> 0, err |-> "invalid syntax"]
       ELSE [n |-> IF signed /\ text[1] = "-" THEN 0 - Number(ds) ELSE Number(ds),
             err |-> "none"]

\* Mutant of parseReloadInterval: a negative number of hours is accepted.
parseReloadInterval_AnyNumber(intervalStr) ==
    IF intervalStr \in {<<"d", "a", "i", "l", "y">>, <<"1", "d">>, <<"2", "4", "h">>}
    THEN [hours |-> 24, err |-> "none"]
    ELSE IF intervalStr \in {<<"w", "e", "e", "k", "l", "y">>, <<"7", "d">>,
                             <<"1", "6", "8", "h">>}
    THEN [hours |-> 168, err |-> "none"]
    ELSE IF intervalStr \in {<<"o", "f", "f">>, <<"d", "i", "s", "a", "b", "l", "e">>,
                             <<"0">>}
    THEN [hours |-> 0, err |-> "none"]
    ELSE IF Atoi(intervalStr).err = "none"
    THEN [hours |-> Atoi(intervalStr).n, err |-> "none"]
    ELSE [hours |-> 0, err |-> "invalid format"]

\* parseReloadInterval: the hours and the error ("none" for nil)
parseReloadInterval(intervalStr) ==
    IF intervalStr \in {<<"d", "a", "i", "l", "y">>, <<"1", "d">>, <<"2", "4", "h">>}
    THEN [hours |-> 24, err |-> "none"]
    ELSE IF intervalStr \in {<<"w", "e", "e", "k", "l", "y">>, <<"7", "d">>,
                             <<"1", "6", "8", "h">>}
    THEN [hours |-> 168, err |-> "none"]
    ELSE IF intervalStr \in {<<"o", "f", "f">>, <<"d", "i", "s", "a", "b", "l", "e">>,
                             <<"0">>}
    THEN [hours |-> 0, err |-> "none"]
    ELSE IF Atoi(intervalStr).err = "none"
    THEN IF Atoi(intervalStr).n < 0
         THEN [hours |-> 0, err |-> "reload interval cannot be negative"]
         ELSE [hours |-> Atoi(intervalStr).n, err |-> "none"]
    ELSE [hours |-> 0, err |-> "invalid format"]

\* The reload_interval arguments configurations are written with.
IntervalTexts ==
    {<<"d", "a", "i", "l", "y">>, <<"1", "d">>, <<"2", "4", "h">>,
     <<"w", "e", "e", "k", "l", "y">>, <<"7", "d">>, <<"1", "6", "8", "h">>,
     <<"o", "f", "f">>, <<"d", "i", "s", "a", "b", "l", "e">>, <<"0">>,
     <<"2">>, <<"4", "8">>, <<"1", "6", "8">>, <<"0", "0", "7">>, <<"+", "5">>,
     <<"-", "1">>, <<"-", "2", "4">>, <<"-", "0">>,
     <<>>, <<"-">>, <<"D", "a", "i", "l", "y">>, <<"2", "4", "H">>, <<"2", "d">>,
     <<"1", "2", "h">>, <<"1", ".", "5">>, <<" ", "5">>, <<"h", "o", "u", "r", "l", "y">>}

\* No reload_interval directive in the block.
NoText == <<"(absent)">>

\* The slots whose path Validate requires.
RequiredPaths == {"Country", "City", "GlobalCity"}

\* The reload intervals a JSON configuration is written with.
JSONIntervals == {-1, 0, DefaultReloadHours}

\* UnmarshalCaddyfile: the directives of the geoip2 block, then setDefaults,
\* which fills the three required paths. text is the reload_interval
\* argument, asn whether asn_database_path is given.
UnmarshalCaddyfile ==
    /\ mpc = "config"
    /\ \E text \in IntervalTexts \cup {NoText} : \E asn \in BOOLEAN :
         LET parsed == IF text = NoText THEN [hours |-> 0, err |-> "none"]
                       ELSE parseReloadInterval(text)
         IN IF parsed.err # "none"
            THEN /\ mpc' = "rejected"
                 /\ conf' = [conf EXCEPT !.text = text]
            ELSE /\ mpc' = "validate"
                 /\ conf' = [asnPath |-> asn, interval |-> parsed.hours,
                             paths |-> RequiredPaths \cup (IF asn THEN {"ASN"} ELSE {}),
                             text |-> text]
    /\ UNCHANGED <<slots, opened, closed, mutex, done, tpc, ld, nextGen, ticks, stops, req>>

\* The configuration given as JSON: the fields are taken as written.
UnmarshalJSON ==
    /\ mpc = "config"
    /\ \E ps \in SUBSET Slots : \E hours \in JSONIntervals :
         conf' = [asnPath |-> "ASN" \in ps, interval |-> hours, paths |-> ps,
                  text |-> NoText]
    /\ mpc' = "validate"
    /\ UNCHANGED <<slots, opened, closed, mutex, done, tpc, ld, nextGen, ticks, stops, req>>

\* Mutant of StateValidate: the reload interval is not checked.
StateValidate_PathsOnly(c, files) ==
    IF "Country" \notin c.paths THEN "country_database_path is required"
    ELSE IF "City" \notin c.paths THEN "city_database_path is required"
    ELSE IF "GlobalCity" \notin c.paths THEN "global_city_database_path is required"
    ELSE IF "Country" \notin files THEN "country database"
    ELSE IF "City" \notin files THEN "city database"
    ELSE IF "GlobalCity" \notin files THEN "global city database"
    ELSE "none"

\* GeoIP2State.Validate on configuration c: the error it returns ("none" for
\* nil). files: the slots whose file passes validateDatabaseFile and opens.
StateValidate(c, files) ==
    IF "Country" \notin c.paths THEN "country_database_path is required"
    ELSE IF "City" \notin c.paths THEN "city_database_path is required"
    ELSE IF "GlobalCity" \notin c.paths THEN "global_city_database_path is required"
    ELSE IF c.interval < 0 THEN "reload_interval cannot be negative"
    ELSE IF "Country" \notin files THEN "country database"
    ELSE IF "City" \notin files THEN "city database"
    ELSE IF "GlobalCity" \notin files THEN "global city database"
    ELSE "none"

\* Validate runs before Start; the readers it opens are its own and closed
\* when it returns.
AppValidate ==
    /\ mpc = "validate"
    /\ \E files \in SUBSET RequiredPaths :
         mpc' = IF StateValidate(conf, files) = "none" THEN "start" ELSE "invalid"
    /\ UNCHANGED <<conf, slots, opened, closed, mutex, done, tpc, ld, nextGen, ticks, stops, req>>

\* From the configuration to the end of Start.
InitStartup ==
    /\ conf = [asnPath |-> FALSE, interval |-> 0, paths |-> {}, text |-> NoText]
    /\ slots = NoHandles
    /\ opened = {}
    /\ closed = {}
    /\ mutex = [w |-> NoMutexOwner, held |-> FALSE, r |-> {}]
    /\ done = "nil"
    /\ mpc = "config"
    /\ tpc = "off"
    /\ ld = [p \in Loaders |-> LoadIdle]
    /\ nextGen = 1
    /\ ticks = MaxTicks
    /\ stops = 0
    /\ req = [r \in {} |-> ReqInit]

NextStartup ==
    \/ UnmarshalCaddyfile
    \/ UnmarshalJSON
    \/ AppValidate
    \/ Start
    \/ LoadValidate("main")
    \/ LoadLock("main")
    \/ LoadOpen("main")
    \/ LoadClose("main")
    \/ LoadReplace("main")
    \/ StartReturn

SpecStartup == InitStartup /\ [][NextStartup]_vars

\* The reloads alone: the reload timer is configured, no request is served
\* (so no writer ever has readers to wait for), and the ticker delivers one
\* tick more.
InitReload ==
    /\ conf \in [asnPath : BOOLEAN, interval : {DefaultReloadHours}]
    /\ slots = NoHandles
    /\ opened = {}
    /\ closed = {}
    /\ mutex = [w |-> NoMutexOwner, held |-> FALSE, r |-> {}]
    /\ done = "nil"
    /\ mpc = "start"
    /\ tpc = "off"
    /\ ld = [p \in Loaders |-> LoadIdle]
    /\ nextGen = 1
    /\ ticks = MaxTicks + 1
    /\ stops = 0
    /\ req = [r \in {} |-> ReqInit]

NextReload ==
    \/ Start
    \/ StartReturn
    \/ TimerTick
    \/ TimerDone
    \/ StopSignal
    \/ StopLock
    \/ StopClose
    \/ \E p \in DOMAIN ld : LoadValidate(p)
    \/ \E p \in DOMAIN ld : LoadLock(p)
    \/ \E p \in DOMAIN ld : LoadOpen(p)
    \/ \E p \in DOMAIN ld : LoadClose(p)
    \/ \E p \in DOMAIN ld : LoadReplace(p)

SpecReload == InitReload /\ [][NextReload]_vars

\* ------------------------------------------------------------------ claims
Requests == DOMAIN req
CitySlots == {"City", "GlobalCity"}
WriterPcs == {"open", "close"} \cup RepPcs

\* The country record the request got marks the country or the registered
\* country as EU.
MarkedEU(rq) ==
    \E c \in CountryRecords : c.iso = rq.loc.countryCode /\ (c.eu \/ c.reg)

\* C1: a lookup never queries a closed handle. Whenever a lookup method is
\* about to run Reader.Lookup it holds the read lock, no writer holds the
\* lock, and the handle bound to its slot has not been closed; and wherever
\* loadDatabase or Stop closes or replaces handles it holds the write lock
\* with no reader inside.
C1_NoQueryOnClosedHandle ==
    /\ \A r \in Requests : \A s \in Slots :
         req[r].pc = QueryPc(s) =>
            /\ r \in mutex.r
            /\ ~mutex.held
            /\ slots[s] # Nil => Handle(s, slots[s]) \notin closed
    /\ \A p \in DOMAIN ld :
         ld[p].pc \in {"close"} \cup RepPcs => WriteHeld(p) /\ mutex.r = {}
    /\ mpc \in StopPcs => WriteHeld("main") /\ mutex.r = {}
    /\ ~mutex.held => Bound \cap closed = {}

\* A city lookup holds the read lock on a bound handle while the country
\* handle the same request queried earlier has since been closed by a reload.
C1_Witness ==
    \E r \in Requests : \E s \in CitySlots :
        /\ req[r].pc = QueryPc(s)
        /\ slots[s] # Nil
        /\ req[r].q["Country"] # Nil
        /\ Handle("Country", req[r].q["Country"]) \in closed

\* C2 (as claimed): the lookups of one request that returned a record all ran
\* on handles of one generation.
C2_OneGenerationPerRequest ==
    \A r \in Requests : \A s, t \in Slots :
        (req[r].res[s] = "ok" /\ req[r].res[t] = "ok") => req[r].q[s] = req[r].q[t]

\* C3: the step on which a loadDatabase call returns an error changes no slot
\* binding, and if the call had taken the write lock the bindings, and with
\* them what GetDatabaseInfo reports, are those it found when it took the lock.
C3_FailedLoadKeepsBindings ==
    [][\A p \in DOMAIN ld :
          (InLoad(p) /\ IsErr(ld'[p].res)) =>
             /\ slots' = slots
             /\ closed' = closed
             /\ mutex.w = p =>
                  /\ slots' = ld[p].before
                  /\ GetDatabaseInfo(slots') = GetDatabaseInfo(ld[p].before)]_vars

\* A reload failed after it had opened the new country file, with the
\* first generation still bound.
C3_Witness ==
    /\ IsErr(ld["timer"].res)
    /\ Handle("Country", 2) \in opened
    /\ slots["Country"] = 1
    /\ slots["City"] = 1

C5_CityFailureNotFatal ==
    \A p \in DOMAIN ld : ld[p].res # "err_City"

\* C6: the city database is chosen by EU membership and by what is bound when
\* performLookup checks: an address marked EU goes to LookupCity if the City
\* slot is bound and else on to the GlobalCity check; an address not marked EU
\* goes to LookupGlobalCity if GlobalCity is bound; the GlobalCity check goes
\* to LookupGlobalCity if GlobalCity is bound; and a lookup method that finds
\* its slot bound queries it.
C6_EURouting ==
    [][\A r \in Requests :
          /\ (req[r].pc = CheckPc("City") /\ req'[r] # req[r]
                /\ req[r].res["Country"] = "ok") =>
                /\ (MarkedEU(req[r]) /\ slots["City"] # Nil) =>
                      (req'[r].pc = RLockPc("City") /\ "City" \in req'[r].called)
                /\ (MarkedEU(req[r]) /\ slots["City"] = Nil) =>
                      req'[r].pc = CheckPc("GlobalCity")
                /\ (~MarkedEU(req[r]) /\ slots["GlobalCity"] # Nil) =>
                      (req'[r].pc = RLockPc("GlobalCity")
                         /\ "GlobalCity" \in req'[r].called)
          /\ (req[r].pc = CheckPc("GlobalCity") /\ req'[r] # req[r]
                /\ slots["GlobalCity"] # Nil) =>
                (req'[r].pc = RLockPc("GlobalCity") /\ "GlobalCity" \in req'[r].called)
          /\ \A s \in CitySlots :
                (req[r].pc = QueryPc(s) /\ req'[r] # req[r] /\ slots[s] # Nil) =>
                   req'[r].q[s] = slots[s]]_vars

\* An address whose registered country only is in the EU had its city looked
\* up in the Europe city database.
C6_Witness ==
    \E r \in Requests :
        /\ req[r].pc = "done"
        /\ req[r].loc.countryCode = "GB"
        /\ req[r].q["City"] # Nil
        /\ req[r].res["City"] = "ok"

\* C7: a request calls at most one of LookupCity and LookupGlobalCity and
\* queries at most one of the two slots; after a failed LookupCity the global
\* city database is not consulted.
C7_OneCitySlot ==
    \A r \in Requests :
        /\ ~(CitySlots \subseteq req[r].called)
        /\ req[r].q["City"] = Nil \/ req[r].q["GlobalCity"] = Nil
        /\ req[r].res["City"] = "err" =>
              ("GlobalCity" \notin req[r].called /\ "GlobalCity" \notin req[r].read)

\* A request whose Europe city query failed has ended while the global city
\* database is bound.
C7_Witness ==
    \E r \in Requests :
        /\ req[r].pc = "done"
        /\ req[r].res["City"] = "err"
        /\ req[r].q["City"] # Nil
        /\ slots["GlobalCity"] # Nil

\* C8: a request whose client address does not parse reads no handler field,
\* calls no lookup method, queries nothing, and its eight variables are the
\* empty strings of initializeVariables.
C8_BadAddressTouchesNothing ==
    \A r \in Requests :
        (req[r].pc = "done" /\ ~req[r].ipOK) =>
            /\ req[r].read = {}
            /\ req[r].called = {}
            /\ req[r].q = NoHandles
            /\ \A v \in VarNames : req[r].vars[v] = Str("")

\* A request with an unparsable address has ended while all databases are bound.
C8_Witness ==
    \E r \in Requests :
        /\ req[r].pc = "done"
        /\ req[r].hasState
        /\ isEnabled(req[r].enable)
        /\ ~req[r].ipOK
        /\ \A s \in Slots : slots[s] # Nil

\* C9: a request with a valid address that has ended has gone through the
\* city and the ASN stage whatever the earlier lookups returned: it checked
\* the ASN slot and a city slot, called the lookup method of each slot it found
\* bound (one city slot at most), and each group of variables holds what its
\* own lookup returned.
C9_FailureIsPerSlot ==
    \A r \in Requests :
        (req[r].pc = "done" /\ req[r].ipOK) =>
            /\ "ASN" \in req[r].read
            /\ req[r].read \cap CitySlots # {}
            /\ "ASN" \in req[r].obs => "ASN" \in req[r].called
            /\ (req[r].obs \cap CitySlots # {}) => (req[r].called \cap CitySlots # {})
            /\ req[r].res["Country"] = "ok" =>
                  req[r].vars[VarCountryCode] \in {Str(c.iso) : c \in CountryRecords}
            /\ (\E s \in CitySlots : req[r].res[s] = "ok") =>
                  /\ req[r].vars[VarLatitude] \in {Float(c.lat) : c \in CityRecords}
                  /\ req[r].vars[VarLongitude] \in {Float(c.lon) : c \in CityRecords}
            /\ req[r].res["ASN"] = "ok" =>
                  /\ req[r].vars[VarASN] \in {Uint(c.number) : c \in ASNRecords}
                  /\ req[r].vars[VarASOrg] \in {Str(c.org) : c \in ASNRecords}

\* The country query of a request failed on a bound handle, and its city and
\* ASN lookups then succeeded.
C9_Witness ==
    \E r \in Requests :
        /\ req[r].pc = "done"
        /\ req[r].res["Country"] = "err"
        /\ req[r].q["Country"] # Nil
        /\ req[r].res["GlobalCity"] = "ok"
        /\ req[r].res["ASN"] = "ok"

\* C10 (as claimed): after a request with a valid address, the variables of a
\* slot whose lookup did not succeed are still the empty string.
C10_FailedFieldsStayEmpty ==
    \A r \in Requests :
        (req[r].pc = "done" /\ req[r].ipOK) =>
            /\ req[r].res["Country"] # "ok" => req[r].vars[VarIsInEU] = Str("")
            /\ (\A s \in CitySlots : req[r].res[s] # "ok") =>
                  /\ req[r].vars[VarLatitude] = Str("")
                  /\ req[r].vars[VarLongitude] = Str("")
            /\ req[r].res["ASN"] # "ok" => req[r].vars[VarASN] = Str("")

\* C11: ServeHTTP never fails a request over a lookup problem. Once
\* performLookup has returned or was skipped all eight variables are defined;
\* a request that has not returned has not called the next handler and has no
\* result; a request that has returned has called the next handler exactly
\* once and returned what that handler returned.
C11_LookupNeverFailsRequest ==
    \A r \in Requests :
        /\ req[r].pc \in {"done", "returned"} =>
              \A v \in VarNames : req[r].vars[v] # Unset
        /\ req[r].pc # "returned" =>
              (req[r].nextCalls = 0 /\ req[r].ret = "none")
        /\ req[r].pc = "returned" =>
              /\ req[r].nextCalls = 1
              /\ req[r].nextRes \in HandlerResults
              /\ req[r].ret = req[r].nextRes

\* Requests have returned the next handler's nil after a lookup problem of
\* each kind: the state missing, or the address unparsable, or the country and
\* the city query failing on bound handles.
C11_Witness ==
    \E r \in Requests :
        /\ req[r].pc = "returned"
        /\ req[r].ret = "nil"
        /\ isEnabled(req[r].enable)
        /\ req[r].res["Country"] = "err"
        /\ req[r].q["Country"] # Nil
        /\ req[r].res["GlobalCity"] = "err"
        /\ req[r].q["GlobalCity"] # Nil

\* C12 (as claimed): a second call of Stop completes without a panic.
C12_SecondStopCompletes ==
    stops = MaxStops => mpc # "panic"

\* C13 (as claimed): once Stop has returned, the four slots stay unbound.
C13_UnboundAfterStop ==
    mpc = "stopped" => slots = NoHandles

\* C14: a failed scheduled reload does not end the reload timer. The timer
\* goroutine leaves its loop only when the done channel is closed (by Stop);
\* after a reload that returned an error it is back at its select, where the
\* next tick starts a reload again; and the step on which the scheduled reload
\* returns its error changes no slot binding.
C14_FailedReloadKeepsTimer ==
    /\ [](/\ tpc = "exited" => done = "closed"
          /\ (IsErr(ld["timer"].res) /\ done = "open") => tpc = "select"
          /\ (IsErr(ld["timer"].res) /\ tpc = "select" /\ ticks > 0) =>
                ENABLED TimerTick)
    /\ [][(InLoad("timer") /\ IsErr(ld'["timer"].res)) => slots' = slots]_vars

\* The first scheduled reload failed before it had opened anything, the second
\* tick has started the next reload, which is about to open its files, and the
\* bindings are those of Start.
C14_Witness ==
    /\ ticks = 0
    /\ ld["timer"].pc = "open"
    /\ nextGen = 2
    /\ done = "open"
    /\ slots["Country"] = 1
    /\ slots["City"] = 1

\* C15: the reload timer runs if and only if ReloadInterval is greater than
\* zero and Start's loadDatabase succeeded: the timer goroutine and its done
\* channel exist exactly then; and with ReloadInterval zero no scheduled
\* loadDatabase call is ever made and no tick is ever served.
C15_TimerIffIntervalPositive ==
    /\ tpc # "off" <=>
          (conf.interval > 0 /\ mpc \notin {"start", "loading", "failed"})
    /\ done # "nil" <=> tpc # "off"
    /\ conf.interval = 0 =>
          /\ ld["timer"] = LoadIdle
          /\ ticks = MaxTicks
          /\ ~ENABLED TimerTick

\* With ReloadInterval zero Start has succeeded and a request has been served
\* from the databases it loaded, with no timer.
C15_Witness ==
    /\ conf.interval = 0
    /\ mpc = "running"
    /\ tpc = "off"
    /\ \E r \in Requests : req[r].pc = "returned" /\ req[r].res["Country"] = "ok"

LastReload ==
    LET gens == {g \in 1..MaxGen : Handle("City", g) \in opened}
    IN IF gens = {} THEN Nil ELSE CHOOSE g \in gens : \A h \in gens : h <= g

\* C17: a lookup that begins after a successful reload has released the write
\* lock sees that reload's handles. When a lookup method queries, under the
\* read lock, no loadDatabase call is between its opens and its return, the
\* handle queried is the one bound to the slot, it is not closed, and it is of
\* the latest successful reload, never of an earlier one; before Stop is
\* called the method finds the slot unbound only if that reload did not open
\* the slot's file.
C17_LookupSeesLatestReload ==
    [][\A r \in Requests : \A s \in Slots :
          (req[r].pc = QueryPc(s) /\ req'[r] # req[r]) =>
             /\ \A p \in DOMAIN ld : ld[p].pc \notin WriterPcs
             /\ req'[r].q[s] = slots[s]
             /\ req'[r].q[s] # Nil =>
                   /\ req'[r].q[s] = LastReload
                   /\ Handle(s, req'[r].q[s]) \notin closed
             /\ (stops = 0 /\ Handle(s, LastReload) \in opened) =>
                   req'[r].q[s] = LastReload]_vars

\* A request whose country lookup ran on the handle loaded by Start has its
\* city lookup, begun after the scheduled reload, answered by the handle of
\* that reload.
C17_Witness ==
    \E r \in Requests :
        /\ req[r].q["Country"] = 1
        /\ req[r].q["City"] = 2
        /\ req[r].res["City"] = "ok"
        /\ stops = 0

\* C18: concurrent lookups never block each other. A lookup method that
\* requests the read lock while no loadDatabase call and no Stop holds or
\* requests the write lock gets it at once, however many lookups hold the
\* read lock at that moment; and the lookups that hold it are inside their
\* queries together.
C18_ReadersShareLock ==
    /\ \A r \in Requests :
          ((\E s \in Slots : req[r].pc = RLockPc(s)) /\ mutex.w = NoMutexOwner) =>
             ENABLED AcquireRLock(r)
    /\ \A r \in mutex.r : \E s \in Slots : req[r].pc = QueryPc(s)

\* Two lookups hold the read lock at the same time.
C18_Witness ==
    /\ Cardinality(mutex.r) = 2
    /\ \A r \in mutex.r : \E s \in Slots : req[r].pc = QueryPc(s) /\ slots[s] # Nil

\* The locales of a names map that carry a non-empty name.
NamedLocales(names) == {l \in DOMAIN names : names[l] # ""}

\* The request's city lookup returned a record.
CityFound(rq) == \E s \in CitySlots : rq.res[s] = "ok"

\* C19: the city name follows the preference order. After a city lookup that
\* returned a record, the name is the "de" name if that is non-empty, else
\* the "en" name if that is non-empty, else a non-empty name of some other
\* locale, and it stays empty when the record has no non-empty name; what
\* ends up in geoip2_city is that name.
C19_CityNamePreference ==
    \A r \in Requests :
        CityFound(req[r]) =>
            LET names == req[r].cityRecord.names
                name == req[r].loc.cityName
            IN /\ "de" \in NamedLocales(names) => name = names["de"]
               /\ ("de" \notin NamedLocales(names) /\ "en" \in NamedLocales(names)) =>
                     name = names["en"]
               /\ (NamedLocales(names) \cap {"de", "en"} = {}
                      /\ NamedLocales(names) # {}) =>
                     \E l \in NamedLocales(names) : name = names[l]
               /\ NamedLocales(names) = {} => name = ""
               /\ req[r].pc \in {"done", "returned"} =>
                     req[r].vars[VarCity] = Str(name)

\* Requests have ended with the English name of a record whose "de" name is
\* empty.
C19_Witness ==
    \E r \in Requests :
        /\ req[r].pc = "returned"
        /\ CityFound(req[r])
        /\ "de" \in DOMAIN req[r].cityRecord.names
        /\ req[r].cityRecord.names["de"] = ""
        /\ req[r].vars[VarCity] = Str("Vienna")

\* C20 (as claimed): two requests whose city lookup decoded the same record
\* have the same city name.
C20_SameNamesSameCity ==
    \A r1, r2 \in Requests :
        (CityFound(req[r1]) /\ CityFound(req[r2])
            /\ req[r1].cityRecord = req[r2].cityRecord) =>
           req[r1].loc.cityName = req[r2].loc.cityName

\* C21: the subdivision reported is the code of the first entry of the
\* subdivisions list and of no other. After a city lookup that returned a
\* record the subdivision is the first entry's code when the list is not empty,
\* which leaves it empty when that code is empty, whatever the later entries
\* hold, and it is empty when the list is empty; geoip2_subdivisions gets it.
C21_FirstSubdivisionOnly ==
    \A r \in Requests :
        CityFound(req[r]) =>
            LET subs == req[r].cityRecord.subs
                subdivision == req[r].loc.subdivision
            IN /\ Len(subs) > 0 => subdivision = Head(subs)
               /\ Len(subs) = 0 => subdivision = ""
               /\ req[r].pc \in {"done", "returned"} =>
                     req[r].vars[VarSubdivisions] = Str(subdivision)

\* A request has returned with no subdivision from a record whose first entry
\* has an empty code and whose second entry has a code.
C21_Witness ==
    \E r \in Requests :
        /\ req[r].pc = "returned"
        /\ CityFound(req[r])
        /\ Len(req[r].cityRecord.subs) = 2
        /\ req[r].cityRecord.subs[1] = ""
        /\ req[r].cityRecord.subs[2] # ""
        /\ req[r].vars[VarSubdivisions] = Str("")

\* C22: the ASN database is looked up in every request with a valid address
\* whenever it is bound. Whatever the country and city lookups returned, the
\* request reaches the check of the ASN slot; if the slot is bound at the
\* check LookupASN is called; LookupASN queries the handle it finds bound;
\* and no request with a valid address ends without having checked the slot.
C22_ASNAlwaysLookedUp ==
    [][\A r \in Requests :
          /\ (req[r].pc = CheckPc("ASN") /\ req'[r] # req[r] /\ slots["ASN"] # Nil) =>
                (req'[r].pc = RLockPc("ASN") /\ "ASN" \in req'[r].called)
          /\ (req[r].pc = QueryPc("ASN") /\ req'[r] # req[r] /\ slots["ASN"] # Nil) =>
                req'[r].q["ASN"] = slots["ASN"]
          /\ (req[r].pc # "done" /\ req'[r].pc = "done" /\ req'[r].ipOK) =>
                (req[r].pc \in {CheckPc("ASN"), QueryPc("ASN")}
                   /\ "ASN" \in req'[r].read)]_vars

\* A request for an EU address whose Europe city query failed on a bound
\* handle, with no city fields, has its ASN from a query on the ASN database.
C22_Witness ==
    \E r \in Requests :
        /\ req[r].pc = "returned"
        /\ req[r].loc.isInEU
        /\ req[r].res["City"] = "err"
        /\ req[r].q["City"] # Nil
        /\ req[r].res["ASN"] = "ok"
        /\ req[r].vars[VarASN] = Uint("3320")

\* C23 (as claimed): whenever GetDatabaseInfo can run (it takes the read
\* lock), it reports for each of the four slots whether a database is bound
\* and, for a bound slot, the metadata (database type, build epoch) of the
\* bound reader.
C23_InfoForEverySlot ==
    CanRLock =>
        LET info == GetDatabaseInfo(slots)
        IN \A s \in Slots :
              /\ info.loaded[s] = (slots[s] # Nil)
              /\ slots[s] # Nil =>
                    (s \in DOMAIN info.metadata /\ info.metadata[s] = slots[s])

\* The first entry of an X-Forwarded-For value: the text before its first
\* comma, without surrounding spaces.
FirstEntry(text) ==
    LET commas == {i \in 1..Len(text) : text[i] = ","}
    IN TrimSpace(IF commas = {} THEN text
                 ELSE SubSeq(text, 1, (CHOOSE i \in commas : \A j \in commas : i <= j) - 1))

\* The requests getClientIP was called for.
AddressTaken(r) == req[r].pc # "start" /\ req[r].hasState /\ isEnabled(req[r].enable)

\* C24 (as claimed): in strict mode, and in trusted_proxies mode for a request
\* that is not from a trusted proxy, the client address is the one the same
\* request without its X-Forwarded-For header yields; in wild mode, and in
\* trusted_proxies mode for a trusted proxy, it is the first entry of the
\* header when the header is non-empty and the RemoteAddr address otherwise.
C24_ClientAddressSource ==
    \A r \in Requests :
        AddressTaken(r) =>
            LET h == req[r].http
                level == getSafetyLevel(req[r].enable)
                direct == getClientIP(req[r].enable, [h EXCEPT !.xff = <<>>]).ip
            IN IF level = "Strict" \/ (level = "TrustedProxies" /\ ~h.trusted)
               THEN req[r].clientIP = direct
               ELSE IF h.xff # <<>>
               THEN req[r].clientIP = ParseIP(FirstEntry(h.xff))
               ELSE req[r].clientIP = direct

\* C25 (as claimed): a request served by a handler whose Enable the handler's
\* Validate accepts as a disabling mode ("off", "false", "0" in any letter
\* case) reads no slot, calls no lookup method and has all eight variables at
\* the empty string.
C25_DisabledNoLookup ==
    \A r \in Requests :
        (/\ req[r].pc # "start"
         /\ Validate(req[r].enable)
         /\ ToLower(req[r].enable) \in {"off", "false", "0"}) =>
            /\ req[r].read = {}
            /\ req[r].called = {}
            /\ req[r].vars = InitializedVariables

\* A text is an integer numeral: an optional sign and one or more digits.
IsNumeral(text) ==
    LET ds == IF text # <<>> /\ text[1] \in {"+", "-"} THEN Tail(text) ELSE text
    IN ds # <<>> /\ \A i \in 1..Len(ds) : IsDigit(ds[i])

\* The value of an integer numeral.
Value(text) ==
    IF text[1] = "-" THEN 0 - Number(Tail(text))
    ELSE IF text[1] = "+" THEN Number(Tail(text))
    ELSE Number(text)

\* The interval texts with a meaning of their own.
DailyTexts == {<<"d", "a", "i", "l", "y">>, <<"1", "d">>, <<"2", "4", "h">>}
WeeklyTexts == {<<"w", "e", "e", "k", "l", "y">>, <<"7", "d">>, <<"1", "6", "8", "h">>}
OffTexts == {<<"o", "f", "f">>, <<"d", "i", "s", "a", "b", "l", "e">>, <<"0">>}

C27_StartupAllOrNothing ==
    /\ (mpc \notin {"config", "rejected", "validate"}
          /\ ("Country" \notin conf.paths \/ conf.interval < 0)) => mpc = "invalid"
    /\ mpc = "failed" => (slots = NoHandles /\ tpc = "off" /\ done = "nil")

\* Start has returned an error after loadDatabase had opened the country file
\* and failed to open the city file, with a reload interval configured.
C27_Witness ==
    /\ mpc = "failed"
    /\ ld["main"].res = "err_City"
    /\ Handle("Country", 1) \in opened
    /\ conf.interval > 0

C29_ReadsUnderReadLock ==
    \A r \in Requests : \A s \in Slots :
        (/\ s \in req[r].read
         /\ req[r].res[s] = "none"
         /\ req[r].pc \in {RLockPc(s), QueryPc(s)}) => r \in mutex.r

\* The calls that are in their write section: loadDatabase between Lock and
\* Unlock, Stop between Lock and Unlock.
SlotWriters ==
    {<<"loadDatabase", p>> : p \in {q \in Loaders : ld[q].pc \in WriterPcs}}
        \cup (IF mpc \in StopPcs THEN {<<"Stop", "main">>} ELSE {})

\* C30: a step changes a slot binding only if it is a step of loadDatabase's
\* assignments or of Stop's, taken by the holder of the write lock while no
\* lookup holds the read lock; and at any time at most one call is in its
\* write section, holding the write lock with no reader inside.
C30_SingleWriterUnderLock ==
    /\ [](/\ Cardinality(SlotWriters) <= 1
          /\ \A c \in SlotWriters : WriteHeld(c[2]) /\ mutex.r = {})
    /\ [][slots' # slots =>
             /\ mutex.r = {}
             /\ \/ \E p \in Loaders :
                      /\ ld[p].pc \in RepPcs
                      /\ WriteHeld(p)
                      /\ slots' = [slots EXCEPT ![RepSlot(ld[p].pc)] =
                                                    ld[p].new[RepSlot(ld[p].pc)]]
                \/ /\ mpc \in StopPcs
                   /\ WriteHeld("main")
                   /\ slots' = [slots EXCEPT ![StopSlot(mpc)] = Nil]]_vars

\* A reload is installing its handles (the country slot is already rebound)
\* while a request waits for the read lock.
C30_Witness ==
    /\ ld["timer"].pc = "rep_City"
    /\ slots["Country"] # ld["timer"].before["Country"]
    /\ mutex.r = {}
    /\ \E r \in Requests : \E s \in Slots : req[r].pc = RLockPc(s)

\* C31 (as claimed): every handle a loadDatabase call has opened for
\* installation, and so every handle it installs, is of a slot whose file
\* passed validateDatabaseFile in that call.
C31_OnlyValidatedFilesInstalled ==
    \A p \in Loaders : \A s \in Slots :
        ld[p].new[s] # Nil => s \in ld[p].valid

\* C32: while the app runs after a successful Start and Stop has not been
\* called, the Country slot is bound.
C32_CountryBoundWhileRunning ==
    (mpc = "running" /\ stops = 0) => slots["Country"] # Nil

\* The app runs, Stop was not called, a scheduled reload has failed, and the
\* Country slot still holds the handle of the initial load.
C32_Witness ==
    /\ mpc = "running"
    /\ stops = 0
    /\ IsErr(ld["timer"].res)
    /\ slots["Country"] = 1

\* C33: a request with a valid address that found the Country slot unbound,
\* or whose country lookup failed, is routed as non-EU once it is past the
\* city stage: it neither reads nor queries the Europe city slot, it reads
\* the global city slot and, having found it bound, calls LookupGlobalCity.
C33_NoCountryMeansGlobalCity ==
    \A r \in Requests :
        (/\ req[r].ipOK
         /\ req[r].pc \in {CheckPc("ASN"), RLockPc("ASN"), QueryPc("ASN"), "done", "returned"}
         /\ ("Country" \notin req[r].called \/ req[r].res["Country"] = "err")) =>
            /\ ~req[r].loc.isInEU
            /\ "City" \notin req[r].read
            /\ "City" \notin req[r].called
            /\ req[r].q["City"] = Nil
            /\ "GlobalCity" \in req[r].read
            /\ "GlobalCity" \in req[r].obs =>
                  (req[r].fn = "GlobalCity" /\ "GlobalCity" \in req[r].called
                     /\ req[r].res["GlobalCity"] # "none")

\* A request whose country lookup failed on a bound handle, while the Europe
\* city slot was bound, took its city from a query on the global city slot.
C33_Witness ==
    \E r \in Requests :
        /\ req[r].pc = "returned"
        /\ req[r].res["Country"] = "err"
        /\ req[r].q["Country"] # Nil
        /\ slots["City"] # Nil
        /\ req[r].res["GlobalCity"] = "ok"
        /\ req[r].q["GlobalCity"] # Nil
        /\ req[r].vars[VarCity] = Str("Muenchen")

\* C34 (as claimed): with the bindings fixed (the app runs without reload
\* timer and Stop was not called), a request that got its country from the
\* bound Country handle and has ended took its city from the other city slot
\* when its own is unbound: an EU address from GlobalCity when only GlobalCity
\* is bound, a non-EU address from RegionCity when only RegionCity is bound.
C34_CitySlotsFallBackOnEachOther ==
    \A r \in Requests :
        (/\ req[r].pc \in {"done", "returned"}
         /\ req[r].res["Country"] = "ok"
         /\ req[r].q["Country"] = slots["Country"]
         /\ mpc = "running" /\ stops = 0 /\ tpc = "off") =>
            /\ (req[r].loc.isInEU /\ slots["City"] = Nil /\ slots["GlobalCity"] # Nil) =>
                  ("GlobalCity" \in req[r].called /\ req[r].q["GlobalCity"] # Nil)
            /\ (~req[r].loc.isInEU /\ slots["GlobalCity"] = Nil /\ slots["City"] # Nil) =>
                  ("City" \in req[r].called /\ req[r].q["City"] # Nil)

\* The slots Stop has dealt with when it is at position pc.
SlotsStopped(pc) ==
    CASE pc = "stop_Country" -> {}
      [] pc = "stop_City" -> {"Country"}
      [] pc = "stop_GlobalCity" -> {"Country", "City"}
      [] pc = "stop_ASN" -> {"Country", "City", "GlobalCity"}
      [] OTHER -> {}

\* C35 (as claimed): Stop leaves each slot it has dealt with unbound and no
\* bound handle closed, and once Stop has returned a lookup that holds the
\* read lock finds its slot unbound (it returns the not-loaded error instead
\* of querying).
C35_NotLoadedAfterStop ==
    /\ mpc \in StopPcs =>
          /\ \A s \in SlotsStopped(mpc) : slots[s] = Nil
          /\ Bound \cap closed = {}
    /\ mpc = "stopped" =>
          \A r \in Requests : \A s \in Slots :
              req[r].pc = QueryPc(s) => slots[s] = Nil

\* C36 (as claimed): every handle that was opened and is neither bound nor
\* closed belongs to a loadDatabase call that has not returned yet (it is
\* one of the new handles in that call's locals).
C36_NoHandleLeaked ==
    \A h \in opened \ (closed \cup Bound) :
        \E p \in Loaders : InLoad(p) /\ ld[p].new[h[1]] = h[2]

\* The handles a loadDatabase call holds in its locals for installation.
Installed(p) == {Handle(s, ld[p].new[s]) : s \in {t \in Slots : ld[p].new[t] # Nil}}

\* A call that is about to close handles (loadDatabase before "Close old
\* databases", Stop at any of its slots) finds none of the bound handles
\* closed already: no handle is closed twice.
ClosedAtMostOnce ==
    ((\E p \in Loaders : ld[p].pc = "close") \/ mpc \in StopPcs) => Bound \cap closed = {}

C38_LookupAndLoadFrame ==
    [][/\ \A r \in Requests : \A s \in Slots :
             (req[r].pc \in {RLockPc(s), QueryPc(s)} /\ req'[r] # req[r]) =>
                 (slots' = slots /\ conf' = conf)
       /\ \A p \in Loaders : ld'[p] # ld[p] => conf' = conf]_vars

\* A request has gone through all three lookups on the handles a scheduled
\* reload installed, under the configuration the app was started with.
C38_Witness ==
    \E r \in Requests :
        /\ req[r].pc = "returned"
        /\ ld["timer"].res = "ok"
        /\ conf = [asnPath |-> TRUE, interval |-> DefaultReloadHours]
        /\ \A s \in {"Country", "GlobalCity", "ASN"} :
              req[r].res[s] = "ok" /\ req[r].q[s] = 2 /\ slots[s] = 2

====
